---- MODULE Spec2Model ----
(***************************************************************************)
(* Keyboard layouts of src/layout.rs: the key grid, the two layers of a    *)
(* layout, the masked random shuffle, the reverse position map and the     *)
(* classified key press.  Characters are their code points; grid positions *)
(* are 0-based as in the source.                                           *)
(***************************************************************************)
EXTENDS Integers, Sequences, FiniteSets, TLC

\* KeyMap<T>(pub [T; 33])
NumKeys == 33
\* LayoutPosMap([Option<usize>; 128])
MapSize == 128

Positions == 0 .. (NumKeys - 1)

\* a [T; 33] literal, indexed by grid position
KeyMap(seq) == [p \in Positions |-> seq[p + 1]]

\* Option<T>
None == << >>
Some(x) == << x >>

(***************************************************************************)
(* Bounds of the model                                                     *)
(***************************************************************************)
\* raw values of random::<usize>() enumerated for shuffle_position: 0 .. MaxRaw
MaxRaw == 31
\* swap iterations performed in one run, over all shuffle calls
MaxSwaps == 2

(***************************************************************************)
(* Statics                                                                 *)
(***************************************************************************)
\* INIT_LAYOUT (layout.rs 74-82), characters as code points
INIT_LAYOUT ==
  [lower |-> KeyMap(<<
        113, 117, 112, 103,  47, 122, 108, 119, 121,  45,  61,
         97, 114, 110, 115, 100, 102, 104, 116, 105, 111,  39,
        106, 107, 118,  99,  59, 120, 109,  98,  44,  46,
        101>>),
   upper |-> KeyMap(<<
         81,  85,  80,  71,  63,  90,  76,  87,  89,  95,  43,
         65,  82,  78,  83,  68,  70,  72,  84,  73,  79,  34,
         74,  75,  86,  67,  58,  88,  77,  66,  60,  62,
         69>>)]

\* QWERTY_LAYOUT (layout.rs 85-93), characters as code points
QWERTY_LAYOUT ==
  [lower |-> KeyMap(<<
        113, 119, 101, 114, 116, 121, 117, 105, 111, 112,  45,
         97, 115, 100, 102, 103, 104, 106, 107, 108,  59,  39,
        122, 120,  99, 118,  98, 110, 109,  44,  46,  47,
          0>>),
   upper |-> KeyMap(<<
         81,  87,  69,  82,  84,  89,  85,  73,  79,  80,  95,
         65,  83,  68,  70,  71,  72,  74,  75,  76,  58,  34,
         90,  88,  67,  86,  66,  78,  77,  60,  62,  63,
          0>>)]

\* DVORAK_LAYOUT (layout.rs 96-104), characters as code points
DVORAK_LAYOUT ==
  [lower |-> KeyMap(<<
         39,  44,  46, 112, 121, 102, 103,  99, 114, 108,  47,
         97, 111, 101, 117, 105, 100, 104, 116, 110, 115,  45,
         59, 113, 106, 107, 120,  98, 109, 119, 118, 122,
          0>>),
   upper |-> KeyMap(<<
         34,  44,  46,  80,  89,  70,  71,  67,  82,  76,  63,
         65,  79,  69,  85,  73,  68,  72,  84,  78,  83,  95,
         58,  81,  74,  75,  88,  66,  77,  87,  86,  90,
          0>>)]

\* COLEMAK_LAYOUT (layout.rs 107-115), characters as code points
COLEMAK_LAYOUT ==
  [lower |-> KeyMap(<<
        113, 119, 102, 112, 103, 106, 108, 117, 121,  59,  45,
         97, 114, 115, 116, 100, 104, 110, 101, 105, 111,  39,
        122, 120,  99, 118,  98, 107, 109,  44,  46,  47,
          0>>),
   upper |-> KeyMap(<<
         81,  87,  70,  80,  71,  74,  76,  85,  89,  58,  95,
         65,  82,  83,  84,  68,  72,  78,  69,  73,  79,  34,
         90,  88,  67,  86,  66,  75,  77,  60,  62,  90,
          0>>)]

\* QGMLWY_LAYOUT (layout.rs 118-126), characters as code points
QGMLWY_LAYOUT ==
  [lower |-> KeyMap(<<
        113, 103, 109, 108, 119, 121, 102, 117,  98,  59,  45,
        100, 115, 116, 110, 114, 105,  97, 101, 111, 104,  39,
        122, 120,  99, 118, 106, 107, 112,  44,  46,  47,
          0>>),
   upper |-> KeyMap(<<
         81,  71,  77,  76,  87,  89,  70,  85,  66,  59,  45,
         68,  83,  84,  78,  82,  73,  65,  69,  79,  72,  39,
         90,  88,  67,  86,  74,  75,  80,  44,  46,  47,
          0>>)]

\* WORKMAN_LAYOUT (layout.rs 129-137), characters as code points
WORKMAN_LAYOUT ==
  [lower |-> KeyMap(<<
        113, 100, 114, 119,  98, 106, 102, 117, 112,  59,  45,
         97, 115, 104, 116, 103, 121, 110, 101, 111, 105,  39,
        122, 120, 109,  99, 118, 107, 108,  44,  46,  47,
          0>>),
   upper |-> KeyMap(<<
         81,  68,  82,  87,  66,  74,  70,  85,  80,  59,  45,
         65,  83,  72,  84,  71,  89,  78,  69,  79,  73,  39,
         90,  88,  77,  67,  86,  75,  76,  44,  46,  47,
          0>>)]

\* the six presets, in source order
Presets ==
  [INIT |-> INIT_LAYOUT, QWERTY |-> QWERTY_LAYOUT, DVORAK |-> DVORAK_LAYOUT,
   COLEMAK |-> COLEMAK_LAYOUT, QGMLWY |-> QGMLWY_LAYOUT, WORKMAN |-> WORKMAN_LAYOUT]

PresetNames == DOMAIN Presets

\* A Layout value that is not a preset: the reference layout with a character
\* outside the 0-127 range in each layer (233, 128512 at position 3), a character
\* twice in the lower layer ('q' at 0 and 4) and a character of the lower layer
\* ('a' at 11) in the upper layer at another position (5).
MIXED_LAYOUT ==
  [lower |-> [INIT_LAYOUT.lower EXCEPT ![3] = 233, ![4] = 113],
   upper |-> [INIT_LAYOUT.upper EXCEPT ![3] = 128512, ![5] = 97]]

\* the Layout values a run starts from
StartLayouts == [n \in PresetNames \cup {"MIXED"} |->
                   IF n = "MIXED" THEN MIXED_LAYOUT ELSE Presets[n]]

StartNames == DOMAIN StartLayouts

LAYOUT_MASK == KeyMap(<<
  TRUE,  TRUE,  TRUE,  TRUE,  TRUE,  TRUE,  TRUE,  TRUE,  TRUE,  TRUE,  FALSE,
  TRUE,  TRUE,  TRUE,  TRUE,  TRUE,  TRUE,  TRUE,  TRUE,  TRUE,  TRUE,  TRUE,
  TRUE,  TRUE,  TRUE,  TRUE,  TRUE,  TRUE,  TRUE,  TRUE,  TRUE,  TRUE,
  FALSE>>)

\* a count one above the number of mask-true positions
NUM_SWAPPABLE_Drifted == Cardinality({p \in Positions : LAYOUT_MASK[p]}) + 1

LAYOUT_MASK_NUM_SWAPPABLE == 31

KEY_FINGERS == KeyMap(<<
  "Pinky", "Ring", "Middle", "Index", "Index",   "Index", "Index", "Middle", "Ring", "Pinky", "Pinky",
  "Pinky", "Ring", "Middle", "Index", "Index",   "Index", "Index", "Middle", "Ring", "Pinky", "Pinky",
  "Pinky", "Ring", "Middle", "Index", "Index",   "Index", "Index", "Middle", "Ring", "Pinky",
  "Thumb">>)

KEY_HANDS == KeyMap(<<
  "Left", "Left", "Left", "Left", "Left",   "Right", "Right", "Right", "Right", "Right", "Right",
  "Left", "Left", "Left", "Left", "Left",   "Right", "Right", "Right", "Right", "Right", "Right",
  "Left", "Left", "Left", "Left", "Left",   "Right", "Right", "Right", "Right", "Right",
  "Left">>)

KEY_ROWS == KeyMap(<<
  "Top",    "Top",    "Top",    "Top",    "Top",      "Top",    "Top",    "Top",    "Top",    "Top",    "Top",
  "Home",   "Home",   "Home",   "Home",   "Home",     "Home",   "Home",   "Home",   "Home",   "Home",   "Home",
  "Bottom", "Bottom", "Bottom", "Bottom", "Bottom",   "Bottom", "Bottom", "Bottom", "Bottom", "Bottom",
  "Thumb">>)

(***************************************************************************)
(* State                                                                   *)
(***************************************************************************)
VARIABLES
  arrays,    \* the [char; 33] storage of every live Layer, by storage id
  handles,   \* the Layout values the caller owns: L, and L2 once cloned
  start,     \* name of the Layout value L was created from
  swaps,     \* loop iterations of shuffle performed so far
  last,      \* the last call: its name, the Layout it was made on, its `times`
  raw,       \* the two values random::<usize>() returns to shuffle_position
  ret,       \* what shuffle_position returned for them
  posmap,    \* the LayoutPosMap the caller holds
  mapSrc,    \* the Layout value posmap was built from
  kc,        \* the character given to KeyPress::new
  keypress   \* what KeyPress::new returned

vars == << arrays, handles, start, swaps, last, raw, ret, posmap, mapSrc, kc, keypress >>

NoLayout == [lower |-> 0, upper |-> 0]
NoRet == [i |-> 0, j |-> 0, reads |-> {}, panic |-> FALSE, called |-> FALSE]
NoMap == << >>

HandleNames == {"L", "L2"}

\* the two layers a handle's Layout holds, read through its storage
Val(h) == [lower |-> arrays[handles[h].lower], upper |-> arrays[handles[h].upper]]

Live(h) == handles[h] # NoLayout

(***************************************************************************)
(* Inputs                                                                  *)
(***************************************************************************)
\* raw random values a shuffle draws from: they give the ranks 10, 29, 30
\* (first draw, % 31) and 10, 29, 0 (second draw, % 30)
RawDraws == {10, 29, 30}

\* characters looked up: '\0' ''' ';' 'Z' 'a' 'i' 'q' '~' DEL, and 128, 233,
\* 128512 outside the table's range
QueryChars == {0, 39, 59, 90, 97, 105, 113, 126, 127, 128, 233, 128512}

(***************************************************************************)
(* Layout::shuffle_position                                                *)
(***************************************************************************)
\* loop condition of the remapping walks: while k <= i
WalkContinuesBelow(k, i) == k < i

WalkContinues(k, i) == k <= i

\* One remapping walk, at index k with bound i.  idx is the final bound, last
\* the last index at which the mask was read (k runs from 0 in steps of 1, so
\* the mask is read at every index 0 .. last), panic a read at an index >= 33.
RECURSIVE Walk(_, _)
Walk(i, k) ==
  IF ~WalkContinues(k, i)
    THEN [idx |-> i, last |-> k - 1, panic |-> FALSE]
    ELSE IF k >= NumKeys
      THEN [idx |-> i, last |-> k, panic |-> TRUE]
      ELSE Walk(IF LAYOUT_MASK[k] = FALSE THEN i + 1 ELSE i, k + 1)

\* if j >= i { j = j + 1 }
AdjustJKeep(i, j) == j

AdjustJ(i, j) == IF j >= i THEN j + 1 ELSE j

\* the ranks drawn, returned without the remapping walks
shuffle_position_ranks(r1, r2) ==
  LET i0 == r1 % LAYOUT_MASK_NUM_SWAPPABLE
      j0 == AdjustJ(i0, r2 % (LAYOUT_MASK_NUM_SWAPPABLE - 1))
  IN  [i |-> i0, j |-> j0, reads |-> {}, panic |-> FALSE, called |-> TRUE]

\* r1, r2: the two values of random::<usize>()
shuffle_position(r1, r2) ==
  LET i0 == r1 % LAYOUT_MASK_NUM_SWAPPABLE
      j0 == AdjustJ(i0, r2 % (LAYOUT_MASK_NUM_SWAPPABLE - 1))
      wi == Walk(i0, 0)
      wj == IF wi.panic THEN [idx |-> j0, last |-> 0 - 1, panic |-> TRUE]
                        ELSE Walk(j0, 0)
  IN  [i |-> wi.idx, j |-> wj.idx, reads |-> (0 .. wi.last) \cup (0 .. wj.last),
       panic |-> wj.panic, called |-> TRUE]

(***************************************************************************)
(* Layer::swap, Layout::shuffle, Clone                                     *)
(***************************************************************************)
\* layer[i] = layer[j] with no temporary: the old layer[i] is lost
swap_no_temp(layer, i, j) == [layer EXCEPT ![i] = layer[j]]

swap(layer, i, j) == [layer EXCEPT ![i] = layer[j], ![j] = layer[i]]

\* only the lower layer is swapped
LayoutSwapLowerOnly(arrs, layout, i, j) ==
  [arrs EXCEPT ![layout.lower] = swap(@, i, j)]

\* lower.swap(i, j); upper.swap(i, j);
LayoutSwap(arrs, layout, i, j) ==
  LET a1 == [arrs EXCEPT ![layout.lower] = swap(@, i, j)]
  IN  [a1 EXCEPT ![layout.upper] = swap(@, i, j)]

\* shuffle_position for each pair of raw values a shuffle draws, tabulated
\* once (@@ makes the table an explicit function)
DrawnPositions == [d \in RawDraws \X RawDraws |-> shuffle_position(d[1], d[2])] @@ << >>

\* the loop of shuffle from its n-th iteration; draws[n] are the two raw random
\* values of that iteration.  fault: an index out of range stopped the call.
RECURSIVE shuffle(_, _, _, _)
shuffle(arrs, layout, draws, n) ==
  IF n > Len(draws)
    THEN [arrays |-> arrs, fault |-> FALSE]
    ELSE LET sp == DrawnPositions[draws[n]]
         IN  IF sp.panic \/ sp.i \notin Positions \/ sp.j \notin Positions
               THEN [arrays |-> arrs, fault |-> TRUE]
               ELSE shuffle(LayoutSwap(arrs, layout, sp.i, sp.j), layout, draws, n + 1)

\* a clone that hands back the storage it was asked to copy
KeyMapCloneShared(arrs, id) == [arrays |-> arrs, id |-> id]

\* KeyMap(self.0): the array is copied into storage of its own
KeyMapClone(arrs, id) == [arrays |-> Append(arrs, arrs[id]), id |-> Len(arrs) + 1]

\* #[derive(Clone)] on Layer and Layout: field by field
LayoutClone(arrs, layout) ==
  LET lo == KeyMapClone(arrs, layout.lower)
      up == KeyMapClone(lo.arrays, layout.upper)
  IN  [arrays |-> up.arrays, layout |-> [lower |-> lo.id, upper |-> up.id]]

(***************************************************************************)
(* Layer::fill_position_map, Layout::get_position_map,                     *)
(* LayoutPosMap::get_key_position, KeyPress::new                           *)
(***************************************************************************)
EmptyMap == [c \in 0 .. (MapSize - 1) |-> None]

\* the loop of fill_position_map from position p: a character below 128 is an
\* index of the 128-slot table, and its slot is overwritten
RECURSIVE fill_position_map(_, _, _)
fill_position_map(layer, map, p) ==
  IF p >= NumKeys
    THEN map
    ELSE IF layer[p] < MapSize /\ layer[p] \in DOMAIN map
      THEN fill_position_map(layer, [map EXCEPT ![layer[p]] = Some(p)], p + 1)
      ELSE fill_position_map(layer, map, p + 1)

\* the upper layer is filled first, the lower layer last
get_position_map_upper_first(layout) ==
  fill_position_map(layout.lower, fill_position_map(layout.upper, EmptyMap, 0), 0)

get_position_map(layout) ==
  fill_position_map(layout.upper, fill_position_map(layout.lower, EmptyMap, 0), 0)

\* the table is indexed with no range check, the index wrapping at its size
get_key_position_wrapping(map, c) == map[c % MapSize]

get_key_position(map, c) == IF c < MapSize THEN map[c] ELSE None

KeyPress_new(c, map) ==
  LET r == get_key_position(map, c)
  IN  IF r # None
        THEN Some([kc |-> c, pos |-> r[1], finger |-> KEY_FINGERS[r[1]],
                   hand |-> KEY_HANDS[r[1]], row |-> KEY_ROWS[r[1]]])
        ELSE None

(***************************************************************************)
(* Actions                                                                 *)
(***************************************************************************)
InitCommon ==
  /\ \E n \in StartNames :
       /\ start = n
       /\ arrays = << StartLayouts[n].lower, StartLayouts[n].upper >>
  /\ handles = [L |-> [lower |-> 1, upper |-> 2], L2 |-> NoLayout]
  /\ swaps = 0
  /\ last = [op |-> "init", target |-> "L", times |-> 0, fault |-> FALSE]
  /\ ret = NoRet
  /\ posmap = NoMap
  /\ mapSrc = NoLayout
  /\ kc = None
  /\ keypress = None

Init ==
  /\ InitCommon
  /\ raw = << 0, 0 >>

\* L2 = L.clone()
Clone ==
  /\ ~Live("L2")
  /\ LET c == LayoutClone(arrays, handles["L"])
     IN  /\ arrays' = c.arrays
         /\ handles' = [handles EXCEPT !["L2"] = c.layout]
  /\ last' = [op |-> "clone", target |-> "L", times |-> 0, fault |-> FALSE]
  /\ UNCHANGED << start, swaps, raw, ret, posmap, mapSrc, kc, keypress >>

\* h.shuffle(times), the random source returning draws[n] in iteration n
Shuffle(h, times, draws) ==
  /\ Live(h)
  /\ swaps + times <= MaxSwaps
  /\ LET s == shuffle(arrays, handles[h], draws, 1)
     IN  /\ arrays' = s.arrays
         /\ last' = [op |-> "shuffle", target |-> h, times |-> times, fault |-> s.fault]
  /\ swaps' = swaps + times
  /\ UNCHANGED << handles, start, raw, ret, posmap, mapSrc, kc, keypress >>

ShuffleCall ==
  \E h \in HandleNames : \E times \in 0 .. (MaxSwaps - swaps) :
    \E draws \in [1 .. times -> RawDraws \X RawDraws] : Shuffle(h, times, draws)

Next ==
  \/ Clone
  \/ ShuffleCall

Spec == Init /\ [][Next]_vars

(***************************************************************************)
(* shuffle_position on its own, for every pair of raw draws                *)
(***************************************************************************)
InitPos ==
  /\ InitCommon
  /\ start = "INIT"
  /\ raw \in (0 .. MaxRaw) \X (0 .. MaxRaw)

CallShufflePosition ==
  /\ ~ret.called
  /\ ret' = shuffle_position(raw[1], raw[2])
  /\ last' = [op |-> "shuffle_position", target |-> "L", times |-> 0, fault |-> ret'.panic]
  /\ UNCHANGED << arrays, handles, start, swaps, raw, posmap, mapSrc, kc, keypress >>

NextPos == CallShufflePosition

SpecPos == InitPos /\ [][NextPos]_vars

(***************************************************************************)
(* The caller's lookup pipeline: shuffle, derive a map, look characters up *)
(***************************************************************************)
\* shuffles precede the map's construction
ShuffleBeforeMap ==
  /\ posmap = NoMap
  /\ \E times \in 0 .. (MaxSwaps - swaps) :
       \E draws \in [1 .. times -> RawDraws \X RawDraws] : Shuffle("L", times, draws)

\* posmap = L.get_position_map()
GetPositionMap ==
  /\ posmap = NoMap
  /\ posmap' = get_position_map(Val("L"))
  /\ mapSrc' = Val("L")
  /\ last' = [op |-> "get_position_map", target |-> "L", times |-> 0, fault |-> FALSE]
  /\ UNCHANGED << arrays, handles, start, swaps, raw, ret, kc, keypress >>

\* KeyPress::new(c, &posmap)
KeyPressNew(c) ==
  /\ posmap # NoMap
  /\ kc' = c
  /\ keypress' = KeyPress_new(c, posmap)
  /\ last' = [op |-> "new", target |-> "L", times |-> 0, fault |-> FALSE]
  /\ UNCHANGED << arrays, handles, start, swaps, raw, ret, posmap, mapSrc >>

Lookup == \E c \in QueryChars : KeyPressNew(c)

NextLookup ==
  \/ ShuffleBeforeMap
  \/ GetPositionMap
  \/ Lookup

SpecLookup == Init /\ [][NextLookup]_vars

(***************************************************************************)
(* Vocabulary of the properties                                            *)
(***************************************************************************)
StartLayout == StartLayouts[start]

\* how often character c occurs in a layer
Count(layer, c) == Cardinality({p \in Positions : layer[p] = c})

\* two layers hold the same multiset of characters
SameChars(f, g) ==
  \A c \in {f[p] : p \in Positions} \cup {g[p] : p \in Positions} :
    Count(f, c) = Count(g, c)

\* the key at position p: its lower and its upper character
Key(layout, p) == << layout.lower[p], layout.upper[p] >>

\* layouts a and b hold the same multiset of keys, that is, one permutation
\* of the positions takes both layers of a to the layers of b
SameKeys(a, b) ==
  \A k \in {Key(a, p) : p \in Positions} \cup {Key(b, p) : p \in Positions} :
    Cardinality({p \in Positions : Key(a, p) = k})
      = Cardinality({p \in Positions : Key(b, p) = k})

Eligible == {p \in Positions : LAYOUT_MASK[p]}

EligiblePairs == {d \in Eligible \X Eligible : d[1] # d[2]}

\* the r-th mask-true grid index in ascending order, r counted from 0
NthEligible(r) ==
  CHOOSE p \in Eligible : Cardinality({q \in Eligible : q < p}) = r

\* the reduced draws: r1 in [0, 31) and r2 in [0, 30)
ReducedDraws == (0 .. 30) \X (0 .. 29)

\* shuffle_position over all reduced draws, tabulated once
ReducedPositions ==
  [d \in ReducedDraws |-> shuffle_position(d[1], d[2])] @@ << >>

\* the positions of a layer that hold character c
Holding(layer, c) == {p \in Positions : layer[p] = c}

Highest(S) == CHOOSE x \in S : \A y \in S : y <= x

(***************************************************************************)
(* Properties of shuffle and clone (Spec)                                  *)
(***************************************************************************)
\* C1: after any shuffle(times), times >= 0, each layer of the shuffled Layout
\* holds exactly the multiset of characters it held before: nothing is
\* introduced, removed or duplicated.
C1_ShufflePermutes ==
  \A h \in HandleNames :
    Live(h) => /\ SameChars(Val(h).lower, StartLayout.lower)
               /\ SameChars(Val(h).upper, StartLayout.upper)

C1_Witness ==
  /\ last.op = "shuffle"
  /\ last.times >= 2
  /\ Val(last.target).lower # StartLayout.lower
  /\ Val(last.target).upper # StartLayout.upper

\* C2: whatever is drawn, the characters at the two mask-ineligible positions,
\* grid index 10 and grid index 32, stay as they were in both layers.
C2_FixedSlotsUnchanged ==
  /\ Positions \ Eligible = {10, 32}
  /\ \A h \in HandleNames : \A p \in {10, 32} :
       Live(h) => /\ Val(h).lower[p] = StartLayout.lower[p]
                  /\ Val(h).upper[p] = StartLayout.upper[p]

C2_Witness ==
  /\ last.op = "shuffle"
  /\ Val("L").lower[11] # StartLayout.lower[11]
  /\ Val("L").lower[31] # StartLayout.lower[31]

\* C4: both layers are permuted identically: one permutation of the 33
\* positions takes the old lower layer to the new one and the old upper layer
\* to the new one, so every key keeps its pair of characters.
C4_LayersInLockstep ==
  \A h \in HandleNames : Live(h) => SameKeys(Val(h), StartLayout)

C4_Witness ==
  /\ last.op = "shuffle"
  /\ last.times >= 1
  /\ swaps = MaxSwaps
  /\ \E p \in Positions : Key(Val(last.target), p) # Key(StartLayout, p)

\* C8: a shuffle of one of a Layout and its clone leaves both layers of the
\* other unchanged at every position.
C8_CloneIndependence ==
  [][\A h \in HandleNames :
       (last'.op = "shuffle" /\ last'.target = h) =>
         \A g \in HandleNames \ {h} : Live(g) => Val(g)' = Val(g)]_vars

C8_Witness ==
  /\ Live("L2")
  /\ last.op = "shuffle"
  /\ last.target = "L2"
  /\ Val("L2") # Val("L")
  /\ Val("L") # StartLayout

(***************************************************************************)
(* Properties of shuffle_position (SpecPos)                                *)
(***************************************************************************)
\* C3: for every pair of raw random values, shuffle_position returns (i, j)
\* with i # j, i < 33, j < 33 and the mask true at i and at j.
C3_DistinctEligiblePair ==
  ret.called =>
    /\ ret.i # ret.j
    /\ ret.i \in Positions /\ ret.i < 33
    /\ ret.j \in Positions /\ ret.j < 33
    /\ LAYOUT_MASK[ret.i] = TRUE
    /\ LAYOUT_MASK[ret.j] = TRUE

C3_Witness ==
  /\ ret.called
  /\ raw[2] % 30 >= raw[1] % 31
  /\ raw[1] > 30
  /\ ret.j = 31

\* C9: on the reduced draws r1 in [0, 31), r2 in [0, 30) shuffle_position is a
\* bijection onto the 31 * 30 ordered pairs of distinct mask-true positions,
\* each rank r going to the r-th mask-true grid index in ascending order.
C9_BijectionOntoEligiblePairs ==
  ret.called =>
    LET r1 == raw[1] % 31
        r2 == raw[2] % 30
        pair == << ret.i, ret.j >>
    IN  /\ pair = << NthEligible(r1), NthEligible(IF r2 >= r1 THEN r2 + 1 ELSE r2) >>
        /\ pair \in EligiblePairs
        /\ Cardinality(EligiblePairs) = 31 * 30
        /\ Cardinality(ReducedDraws) = 31 * 30
        /\ \A d \in ReducedDraws :
             << ReducedPositions[d].i, ReducedPositions[d].j >> = pair
               => d = << r1, r2 >>

C9_Witness ==
  /\ ret.called
  /\ raw[1] % 31 = 30
  /\ raw[2] % 30 = 10
  /\ << ret.i, ret.j >> = << 31, 11 >>

\* C10: in both remapping walks every index at which the mask is read is
\* below 33, although the walk's bound grows, and both returned indices are
\* below 33: no index is out of range.
C10_NoIndexOutOfRange ==
  ret.called =>
    /\ ~ret.panic
    /\ ~last.fault
    /\ \A k \in ret.reads : k < 33
    /\ ret.i < 33
    /\ ret.j < 33

C10_Witness ==
  /\ ret.called
  /\ raw[1] % 31 = 30
  /\ ret.i = 31
  /\ 31 \in ret.reads

(***************************************************************************)
(* Properties of the position map and KeyPress::new (SpecLookup)           *)
(***************************************************************************)
\* what C5 says the map records for character c of a Layout
Recorded(layout, c) ==
  IF Holding(layout.upper, c) # {}
    THEN Some(Highest(Holding(layout.upper, c)))
    ELSE IF Holding(layout.lower, c) # {}
      THEN Some(Highest(Holding(layout.lower, c)))
      ELSE None

\* C5: for every character below 128 the map records the highest position
\* holding it in the upper layer if the upper layer holds it, otherwise the
\* highest position holding it in the lower layer, otherwise nothing.
C5_UpperThenHighestWins ==
  posmap # NoMap =>
    /\ DOMAIN posmap = 0 .. 127
    /\ \A c \in 0 .. 127 : posmap[c] = Recorded(mapSrc, c)

C5_Witness ==
  /\ posmap # NoMap
  /\ swaps >= 1
  /\ \E c \in 0 .. 127 :
       /\ Holding(mapSrc.upper, c) # {}
       /\ Holding(mapSrc.lower, c) # {}
       /\ Highest(Holding(mapSrc.lower, c)) > Highest(Holding(mapSrc.upper, c))
  /\ \E c \in 0 .. 127 : Cardinality(Holding(mapSrc.lower, c)) > 1

\* C6: for every preset and every character c one of its layers holds at
\* position p, KeyPress::new(c, preset.get_position_map()) is a KeyPress with
\* kc = c, pos = p and the finger, hand and row of p.
C6_PresetKeyPressAtEveryPosition ==
  (last.op = "new" /\ start \in PresetNames /\ mapSrc = Presets[start]) =>
    \A p \in Positions :
      (Presets[start].lower[p] = kc \/ Presets[start].upper[p] = kc) =>
        keypress = Some([kc |-> kc, pos |-> p, finger |-> KEY_FINGERS[p],
                         hand |-> KEY_HANDS[p], row |-> KEY_ROWS[p]])

\* kc is at or above 128, or in neither layer of the Layout the map was built from
Absent(c) ==
  \/ c >= 128
  \/ \A p \in Positions : mapSrc.lower[p] # c /\ mapSrc.upper[p] # c

\* C7: get_key_position yields no position when kc >= 128 or kc is in neither
\* layer of the source Layout; KeyPress::new yields no KeyPress in exactly
\* those cases; the lookup changes neither the map nor the Layout.
C7_AbsenceIsAValue ==
  [][last'.op = "new" =>
       /\ posmap' = posmap
       /\ arrays' = arrays
       /\ handles' = handles
       /\ Absent(kc') => get_key_position(posmap, kc') = None
       /\ (keypress' = None) <=> Absent(kc')]_vars

C7_Witness ==
  /\ last.op = "new"
  /\ kc = 233
  /\ \E p \in Positions : mapSrc.lower[p] = kc
  /\ keypress = None
  /\ swaps >= 1

====
